---- MODULE Spec2Model ----
(***************************************************************************)
(* Browser client of the doctor schedule optimizer                         *)
(* (web_version2/static/js/main.js).  Two independent page controllers:    *)
(*   - the doctor page: calendar rendering, drag selection, submission;    *)
(*   - the admin page: submission status, scheduler run stream, results.   *)
(* Each page is a specification of its own (SpecDoctor, SpecAdmin): the    *)
(* DOMContentLoaded handler initialises exactly one of them.               *)
(***************************************************************************)
EXTENDS Integers, Sequences, FiniteSets, TLC

\* ---------------------------------------------------------------- bounds
\* Pointer targets and server-side day numbers are drawn from 1..MaxDay.
MaxDay == 2
\* renderCalendar registers one more listener triple per call.
MaxListeners == 2
\* doctor_info and schedule_data fetches of the doctor page that may be in
\* flight together.
MaxLoads == 2
\* updateSubmissionStatus fetches that may be in flight together.
MaxStatus == 1
\* Submissions that may be in flight together.
MaxSubmits == 2
\* Scheduler runs started on the admin page.
MaxRuns == 2
\* Entries of the log output.
MaxLog == 2

\* ------------------------------------------------------- input domains
Doctors == {"drA"}
NoDoctor == "null"
Years == {2025}
Months == {1, 2}
NoDay == 0
DaysOffChoices == {{1}}
HolidayChoices == {{}, {2}}
Lines == {"A", "B"}
Messages == {"X"}
NoStream == 0

\* ------------------------------------------------------------ variables
VARIABLES
    \* doctor page (initDoctorPage closure and the calendar DOM)
    currentDoctor, currentYear, currentMonth,
    isDragging, dragStartDay, dragToggleState,
    cellDays,        \* day cells 1..cellDays carry class 'available'
    selected,        \* days whose cell carries class 'selected'
    selecting,       \* days whose cell carries class 'selecting'
    holiday,         \* days whose cell carries class 'holiday'
    nListeners,      \* listener triples registered by addDragListeners
    pendingInfo,     \* doctor-change handlers awaiting updateDoctorInfo
    pendingLoads,    \* loadAndRenderCalendar fetches in flight, per month
    submitDisabled,  \* submitButton.disabled
    submitsInFlight, \* submitDaysOff calls awaiting their fetch
    gest,            \* history: the pointer gesture in progress
    calendarFor      \* history: the context the rendered cells were loaded for

doctorVars == <<currentDoctor, currentYear, currentMonth, isDragging,
                dragStartDay, dragToggleState, cellDays, selected, selecting,
                holiday, nListeners, pendingInfo, pendingLoads,
                submitDisabled, submitsInFlight, gest,
                calendarFor>>

VARIABLES
    \* admin page (initAdminPage closure and the DOM it drives)
    adminYear, adminMonth, \* currentYear, currentMonth of initAdminPage
    runDisabled,      \* runButton.disabled
    eventSource,      \* the stream eventSource refers to, NoStream = null
    streams,          \* readyState of every EventSource created so far
    logTimerInterval, \* the id logTimerInterval holds, 0 = null
    activeTimers,     \* intervals set and not cleared
    fullScheduleData, \* the cached schedule_data, NoPayload = null
    areaFilter,       \* areaFilter.value
    dateFilter,       \* dateFilter.value
    filtersShown,     \* scheduleFilters.style.display is 'flex'
    table,            \* the table in #doctor-schedule-render-area
    log,              \* textContent of #log-output, as a sequence of pieces
    isFirstLog,
    minimized,        \* logCardBody has class 'minimized'
    toggleHidden,     \* toggleLogBtn has class 'd-none'
    resultsHidden,    \* resultsSection has class 'd-none'
    pendingStatus,    \* updateSubmissionStatus fetches in flight, per month
    lastSettled,      \* history: the status fetch that settled last, its
                      \* month, its outcome, whether the page showed it
    run,              \* history: the run started last
    appliedFrom       \* history: streams whose events were handled since

adminVars == <<adminYear, adminMonth, runDisabled, eventSource, streams,
               logTimerInterval, activeTimers, fullScheduleData, areaFilter,
               dateFilter, filtersShown, table, log, isFirstLog, minimized,
               toggleHidden, resultsHidden, pendingStatus, lastSettled, run,
               appliedFrom>>

\* the filter controls and the rendered schedule table
resultsVars == <<areaFilter, dateFilter, filtersShown, table>>

vars == <<doctorVars, adminVars>>

\* ------------------------------------------------------------- helpers
Min(a, b) == IF a <= b THEN a ELSE b
Max(a, b) == IF a >= b THEN a ELSE b
Range(a, b) == Min(a, b) .. Max(a, b)

IsLeap(y) == (y % 4 = 0 /\ y % 100 # 0) \/ y % 400 = 0

\* new Date(currentYear, currentMonth, 0).getDate()
DaysInMonth(y, m) ==
    IF m = 2 THEN (IF IsLeap(y) THEN 29 ELSE 28)
    ELSE IF m \in {4, 6, 9, 11} THEN 30 ELSE 31

\* no status fetch has settled yet
NoFetch == [month |-> 0, kind |-> "none", shown |-> FALSE]

IdleGest == [pre |-> {}, last |-> NoDay, clean |-> TRUE]

\* the calendar was rendered during the gesture: it is tracked no further
RenderedGest == [pre |-> {}, last |-> NoDay, clean |-> FALSE]

\* no calendar rendered yet
NoContext == [doctor |-> NoDoctor, year |-> 0, month |-> 0]

TotalLoads == pendingLoads[1] + pendingLoads[2]

\* fetches of the doctor page in flight: doctor_info and schedule_data
DoctorFetches == pendingInfo + TotalLoads

\* ------------------------------------------------- results payload, table
AreaChoices == {"all", "N"}
DateChoices == {"all", "1-10"}

\* fullScheduleData = null
NoPayload ==
    [doctors |-> <<>>, doctor_info |-> <<>>, num_days |-> 0, holidays |-> {},
     days_off |-> <<>>, schedule |-> <<>>]

\* schedule_data of the DONE event of a run for (y, m): two doctors of two
\* areas; day 1 is a holiday with assignments, day 2 is both a day off and
\* an assigned day of drA, day 4 a day off without assignment.
Payload(y, m) ==
    LET n == DaysInMonth(y, m) IN
    [doctors |-> <<"drA", "drB">>,
     doctor_info |-> [d \in {"drA", "drB"} |-> IF d = "drA" THEN "N" ELSE "S"],
     num_days |-> n,
     holidays |-> {1},
     days_off |-> [d \in {"drA", "drB"} |-> IF d = "drA" THEN {2, 4} ELSE {}],
     schedule |-> [d \in {"drA", "drB"} |->
                      IF d = "drA" THEN [day \in {1, 2, 3} |-> "N"]
                      ELSE [day \in {1, 5} |-> "S"]]]

\* schedule_data values the server sends
Payloads == {Payload(2025, 1)}

\* no table rendered yet
NoTable == [rows |-> <<>>, startDay |-> 0, endDay |-> 0, cells |-> <<>>]

RECURSIVE DaysBeforeYear(_)
DaysBeforeYear(y) ==
    IF y <= 2025 THEN 0
    ELSE DaysBeforeYear(y - 1) + (IF IsLeap(y - 1) THEN 366 ELSE 365)

RECURSIVE DaysBeforeMonth(_, _)
DaysBeforeMonth(y, m) ==
    IF m <= 1 THEN 0 ELSE DaysBeforeMonth(y, m - 1) + DaysInMonth(y, m - 1)

\* new Date(y, m - 1, 1).getDay(): 0 = Sunday .. 6 = Saturday.
\* 1 January 2025 is a Wednesday.
FirstDayOfWeek(y, m) == (3 + DaysBeforeYear(y) + DaysBeforeMonth(y, m)) % 7

\* new Date(y, m - 1, day).getDay(), given the weekday of day 1; a day past
\* the end of the month rolls over.
DayOfWeek(first, day) == (first + day - 1) % 7

\* The style class of the first if / else-if of a cell.
DayClass(data, first, day) ==
    IF day \in data.holidays THEN {"cell-holiday"}
    ELSE IF DayOfWeek(first, day) \in {0, 6} THEN {"cell-weekend"}
    ELSE {}

\* Variant: the assignment is looked up before the day off.
CellContentAreaFirst(data, doc, day) ==
    IF /\ doc \in DOMAIN data.schedule
       /\ day \in DOMAIN data.schedule[doc]
       /\ data.schedule[doc][day] # ""
    THEN [text |-> data.schedule[doc][day],
          classes |-> {"cell-area-" \o data.schedule[doc][day]}]
    ELSE IF doc \in DOMAIN data.days_off /\ day \in data.days_off[doc]
         THEN [text |-> "dayoff", classes |-> {"cell-dayoff"}]
         ELSE [text |-> "", classes |-> {}]

\* The text and class of the second if / else-if of a cell.
CellContent(data, doc, day) ==
    IF doc \in DOMAIN data.days_off /\ day \in data.days_off[doc]
    THEN [text |-> "dayoff", classes |-> {"cell-dayoff"}]
    ELSE IF /\ doc \in DOMAIN data.schedule
            /\ day \in DOMAIN data.schedule[doc]
            /\ data.schedule[doc][day] # ""
         THEN [text |-> data.schedule[doc][day],
               classes |-> {"cell-area-" \o data.schedule[doc][day]}]
         ELSE [text |-> "", classes |-> {}]

\* One body cell of renderScheduleTable.
RenderCell(data, first, doc, day) ==
    LET c == CellContent(data, doc, day) IN
    [text |-> c.text, classes |-> DayClass(data, first, day) \cup c.classes]

\* renderScheduleTable(data) with the filter values and the closure's
\* currentYear, currentMonth.
RenderScheduleTable(data, area, dateRange, y, m) ==
    LET InArea(doc) == area = "all" \/ data.doctor_info[doc] = area
        filteredDoctors == SelectSeq(data.doctors, InArea)
        startDay == IF dateRange \in {"all", "1-10"} THEN 1
                    ELSE IF dateRange = "11-20" THEN 11
                    ELSE IF dateRange = "21-end" THEN 21 ELSE 1
        endDay == IF dateRange = "1-10" THEN 10
                  ELSE IF dateRange = "11-20" THEN 20 ELSE data.num_days
        docs == {filteredDoctors[i] : i \in 1 .. Len(filteredDoctors)}
        first == FirstDayOfWeek(y, m)
    IN [rows |-> filteredDoctors,
        startDay |-> startDay,
        endDay |-> endDay,
        cells |-> [doc \in docs |->
                      [day \in startDay .. endDay |->
                          RenderCell(data, first, doc, day)]]]

\* applyTableFilters: the table shown afterwards.
ApplyTableFilters(data, shown, area, dateRange, y, m) ==
    IF data = NoPayload THEN shown
    ELSE RenderScheduleTable(data, area, dateRange, y, m)

\* ------------------------------------------------------------ doctor page
DoctorInit ==
    /\ currentDoctor = NoDoctor
    /\ currentYear = 2025
    /\ currentMonth = 1
    /\ isDragging = FALSE
    /\ dragStartDay = NoDay
    /\ dragToggleState = FALSE
    /\ cellDays = 0
    /\ selected = {}
    /\ selecting = {}
    /\ holiday = {}
    /\ nListeners = 0
    /\ pendingInfo = 0
    /\ pendingLoads = [m \in Months |-> 0]
    /\ submitDisabled = FALSE
    /\ submitsInFlight = 0
    /\ gest = IdleGest
    /\ calendarFor = NoContext
    \* the admin controller is never constructed on this page
    /\ adminYear = 2025
    /\ adminMonth = 1
    /\ runDisabled = TRUE
    /\ eventSource = 0
    /\ streams = [s \in 1 .. MaxRuns |-> "none"]
    /\ logTimerInterval = 0
    /\ activeTimers = {}
    /\ fullScheduleData = NoPayload
    /\ areaFilter = "all"
    /\ dateFilter = "all"
    /\ filtersShown = FALSE
    /\ table = NoTable
    /\ log = <<>>
    /\ isFirstLog = TRUE
    /\ minimized = FALSE
    /\ toggleHidden = TRUE
    /\ resultsHidden = TRUE
    /\ pendingStatus = [m \in Months |-> 0]
    /\ lastSettled = NoFetch
    /\ run = [status |-> "idle", msg |-> "", delivered |-> <<>>,
              preempted |-> FALSE]
    /\ appliedFrom = {}

\* loadAndRenderCalendar up to its fetch: returns early without a doctor.
IssueLoad(doc, m) ==
    IF doc = NoDoctor THEN pendingLoads
    ELSE [pendingLoads EXCEPT ![m] = @ + 1]

\* doctorSelect 'change': the handler then awaits updateDoctorInfo.
DoctorChange(d) ==
    /\ UNCHANGED <<adminVars, calendarFor>>
    /\ DoctorFetches < MaxLoads
    /\ currentDoctor' = d
    /\ pendingInfo' = pendingInfo + 1
    /\ UNCHANGED <<currentYear, currentMonth, isDragging, dragStartDay,
                   dragToggleState, cellDays, selected, selecting, holiday,
                   nListeners, pendingLoads, submitDisabled, submitsInFlight, gest>>

\* updateDoctorInfo settles; on success the handler goes on to
\* loadAndRenderCalendar, on a rejected fetch the handler ends there.
InfoDone(ok) ==
    /\ UNCHANGED <<adminVars, calendarFor>>
    /\ pendingInfo > 0
    /\ pendingInfo' = pendingInfo - 1
    /\ pendingLoads' = IF ok THEN IssueLoad(currentDoctor, currentMonth)
                       ELSE pendingLoads
    /\ UNCHANGED <<currentDoctor, currentYear, currentMonth, isDragging,
                   dragStartDay, dragToggleState, cellDays, selected,
                   selecting, holiday, nListeners, submitDisabled,
                   submitsInFlight, gest>>

\* yearSelect / monthSelect 'change'
YearMonthChange(y, m) ==
    /\ UNCHANGED <<adminVars, calendarFor>>
    /\ DoctorFetches < MaxLoads
    /\ currentYear' = y
    /\ currentMonth' = m
    /\ pendingLoads' = IssueLoad(currentDoctor, m)
    /\ UNCHANGED <<currentDoctor, isDragging, dragStartDay, dragToggleState,
                   cellDays, selected, selecting, holiday, nListeners,
                   pendingInfo, submitDisabled, submitsInFlight,
                   gest>>

\* renderCalendar(selectedDays, holidays): the grid is rebuilt for the
\* month chosen at the time of the call and addDragListeners registers one
\* more listener triple; the drag flags are not touched.
RenderCalendar(selectedDays, holidays) ==
    LET n == DaysInMonth(currentYear, currentMonth) IN
    /\ cellDays' = n
    /\ holiday' = holidays \cap (1 .. n)
    /\ selected' = selectedDays \cap (1 .. n)
    /\ selecting' = {}
    /\ nListeners' = nListeners + 1

\* A schedule_data fetch of loadAndRenderCalendar settles.  entry is
\* data.submissions[currentDoctor] of the response (present = FALSE when
\* the map has no such key).
LoadDone(m, entry, holidays) ==
    /\ UNCHANGED adminVars
    /\ pendingLoads[m] > 0
    /\ nListeners < MaxListeners
    /\ pendingLoads' = [pendingLoads EXCEPT ![m] = @ - 1]
    /\ LET days_off == IF entry.present THEN entry.days_off ELSE {}
       IN RenderCalendar(days_off, holidays)
    /\ gest' = IF isDragging THEN RenderedGest ELSE gest
    /\ calendarFor' = [doctor |-> currentDoctor, year |-> currentYear,
                       month |-> m]
    /\ UNCHANGED <<currentDoctor, currentYear, currentMonth, isDragging,
                   dragStartDay, dragToggleState, pendingInfo,
                   submitDisabled, submitsInFlight>>

\* The schedule_data fetch of loadAndRenderCalendar (or its json()) rejects:
\* the function ends at the await, nothing is rendered.
LoadFailed(m) ==
    /\ UNCHANGED <<adminVars, calendarFor>>
    /\ pendingLoads[m] > 0
    /\ pendingLoads' = [pendingLoads EXCEPT ![m] = @ - 1]
    /\ UNCHANGED <<currentDoctor, currentYear, currentMonth, isDragging,
                   dragStartDay, dragToggleState, cellDays, selected,
                   selecting, holiday, nListeners, pendingInfo,
                   submitDisabled, submitsInFlight, gest>>

\* One 'mousedown' listener on a target with class 'available':
\* st.sel is the target's 'selected' class, st.tog is dragToggleState.
DownListener(st) == [sel |-> ~st.sel, tog |-> ~st.sel]

RECURSIVE DownListeners(_, _)
DownListeners(k, st) ==
    IF k = 0 THEN st ELSE DownListeners(k - 1, DownListener(st))

\* 'mousedown' on the cell of day d, dispatched to every registered
\* listener in turn.  Targets without class 'available' fail the guard of
\* every listener.  The pointer button alternates between down and up.
MouseDown(d) ==
    /\ UNCHANGED <<adminVars, calendarFor>>
    /\ ~isDragging
    /\ d \in 1 .. cellDays
    /\ LET r == DownListeners(nListeners,
                              [sel |-> d \in selected,
                               tog |-> dragToggleState])
       IN /\ dragToggleState' = r.tog
          /\ selected' = IF r.sel THEN selected \cup {d} ELSE selected \ {d}
    /\ isDragging' = TRUE
    /\ dragStartDay' = d
    /\ gest' = [pre |-> selected, last |-> NoDay, clean |-> TRUE]
    /\ UNCHANGED <<currentDoctor, currentYear, currentMonth, cellDays,
                   selecting, holiday, nListeners, pendingInfo, pendingLoads,
                   submitDisabled, submitsInFlight>>

\* Variant: the listener marks the range without unmarking the other cells.
OverListenerAdditive(d) ==
    selecting \cup {c \in 1 .. cellDays :
                       c >= Min(dragStartDay, d) /\ c <= Max(dragStartDay, d)}

\* One 'mouseover' listener: the cells marked 'selecting' afterwards.
OverListener(d) ==
    {c \in 1 .. cellDays :
        c >= Min(dragStartDay, d) /\ c <= Max(dragStartDay, d)}

\* 'mouseover' on the cell of day d; every listener computes the same marks.
MouseOver(d) ==
    /\ UNCHANGED <<adminVars, calendarFor>>
    /\ isDragging
    /\ d \in 1 .. cellDays
    /\ selecting' = OverListener(d)
    /\ gest' = IF gest.clean THEN [gest EXCEPT !.last = d] ELSE gest
    /\ UNCHANGED <<currentDoctor, currentYear, currentMonth, isDragging,
                   dragStartDay, dragToggleState, cellDays, selected,
                   holiday, nListeners, pendingInfo, pendingLoads,
                   submitDisabled, submitsInFlight>>

\* One document 'mouseup' listener.
UpListener(st) ==
    IF st.isDragging
    THEN [isDragging |-> FALSE,
          selected |-> IF dragToggleState
                       THEN st.selected \cup st.selecting
                       ELSE st.selected \ st.selecting,
          selecting |-> {},
          dragStartDay |-> NoDay]
    ELSE st

RECURSIVE UpListeners(_, _)
UpListeners(k, st) ==
    IF k = 0 THEN st ELSE UpListeners(k - 1, UpListener(st))

\* 'mouseup' anywhere in the document, dispatched to every listener.
MouseUp ==
    /\ UNCHANGED <<adminVars, calendarFor>>
    /\ isDragging
    /\ nListeners > 0
    /\ LET r == UpListeners(nListeners,
                            [isDragging |-> isDragging,
                             selected |-> selected,
                             selecting |-> selecting,
                             dragStartDay |-> dragStartDay])
       IN /\ isDragging' = r.isDragging
          /\ selected' = r.selected
          /\ selecting' = r.selecting
          /\ dragStartDay' = r.dragStartDay
    /\ gest' = IdleGest
    /\ UNCHANGED <<currentDoctor, currentYear, currentMonth,
                   dragToggleState, cellDays, holiday, nListeners,
                   pendingInfo, pendingLoads, submitDisabled,
                   submitsInFlight>>

\* submitDaysOff up to its fetch; a disabled button dispatches no click.
SubmitClick ==
    /\ UNCHANGED <<adminVars, calendarFor>>
    /\ ~submitDisabled
    /\ submitsInFlight < MaxSubmits
    /\ submitDisabled' = TRUE
    /\ submitsInFlight' = submitsInFlight + 1
    /\ UNCHANGED <<currentDoctor, currentYear, currentMonth, isDragging,
                   dragStartDay, dragToggleState, cellDays, selected,
                   selecting, holiday, nListeners, pendingInfo, pendingLoads, gest>>

SubmitOutcomes == {"success", "failure", "throw"}

\* Variant: the button is re-enabled after the try block, not in finally.
SubmitFinallyUnlessThrown(outcome) == outcome = "throw"

\* submitButton.disabled after the finally block of submitDaysOff.
SubmitFinally(outcome) == FALSE

\* The POST settles: try / catch / finally of submitDaysOff.
SubmitSettle(outcome) ==
    /\ UNCHANGED <<adminVars, calendarFor>>
    /\ submitsInFlight > 0
    /\ outcome \in SubmitOutcomes
    /\ submitDisabled' = SubmitFinally(outcome)
    /\ submitsInFlight' = submitsInFlight - 1
    /\ UNCHANGED <<currentDoctor, currentYear, currentMonth, isDragging,
                   dragStartDay, dragToggleState, cellDays, selected,
                   selecting, holiday, nListeners, pendingInfo, pendingLoads,
                   gest>>

SubmissionEntries ==
    {[present |-> FALSE, days_off |-> {}]}
        \cup {[present |-> TRUE, days_off |-> s] : s \in DaysOffChoices}

\* ------------------------------------------------------------- admin page
LogPlaceholder == <<"placeholder", "">>
LogLine(l) == <<"line", l>>
LogFailure(x) == <<"fail", x>>
LogDisconnect == <<"disconnect", "">>

IdleRun ==
    [status |-> "idle", msg |-> "", delivered |-> <<>>, preempted |-> FALSE]

TotalStatus == pendingStatus[1] + pendingStatus[2]

\* initAdminPage: the closure variables and the first updateSubmissionStatus.
\* Whether the markup disables the run button is not fixed by the script.
AdminInit ==
    /\ adminYear = 2025
    /\ adminMonth = 1
    /\ runDisabled \in BOOLEAN
    /\ eventSource = NoStream
    /\ streams = [s \in 1 .. MaxRuns |-> "none"]
    /\ logTimerInterval = 0
    /\ activeTimers = {}
    /\ fullScheduleData = NoPayload
    /\ areaFilter = "all"
    /\ dateFilter = "all"
    /\ filtersShown = FALSE
    /\ table = NoTable
    /\ log = <<>>
    /\ isFirstLog = TRUE
    /\ minimized = FALSE
    /\ toggleHidden = TRUE
    /\ resultsHidden = TRUE
    /\ pendingStatus = [m \in Months |-> IF m = 1 THEN 1 ELSE 0]
    /\ lastSettled = NoFetch
    /\ run = IdleRun
    /\ appliedFrom = {}
    \* the doctor controller is never constructed on this page
    /\ currentDoctor = NoDoctor
    /\ currentYear = 2025
    /\ currentMonth = 1
    /\ isDragging = FALSE
    /\ dragStartDay = NoDay
    /\ dragToggleState = FALSE
    /\ cellDays = 0
    /\ selected = {}
    /\ selecting = {}
    /\ holiday = {}
    /\ nListeners = 0
    /\ pendingInfo = 0
    /\ pendingLoads = [m \in Months |-> 0]
    /\ submitDisabled = FALSE
    /\ submitsInFlight = 0
    /\ gest = IdleGest
    /\ calendarFor = NoContext

\* updateSubmissionStatus up to its fetch.
IssueStatus(pending, m) == [pending EXCEPT ![m] = @ + 1]

\* eventSource.close() on the stream the variable refers to.
CloseStream(ss, s) == IF s = NoStream THEN ss ELSE [ss EXCEPT ![s] = "closed"]

\* Variant: runScheduler opens the new stream without closing the old one.
ClosePreviousSkipped(ss, s) == ss

\* if (eventSource) eventSource.close();  at the head of runScheduler
ClosePrevious(ss, s) == CloseStream(ss, s)

\* Variant: runScheduler leaves the log card and the results as they were.
RunSchedulerViewStale ==
    [minimized |-> minimized, toggleHidden |-> TRUE,
     resultsHidden |-> resultsHidden]

\* runScheduler: the log card expanded, its toggle and the results hidden.
RunSchedulerView ==
    [minimized |-> FALSE, toggleHidden |-> TRUE, resultsHidden |-> TRUE]

\* Variant: resetRunButton re-enables the button without the refresh.
ResetRunButtonNoRefresh(pending, m) ==
    [disabled |-> FALSE, pending |-> pending]

\* resetRunButton: the button state and the fetches in flight afterwards.
ResetRunButton(pending, m) ==
    [disabled |-> FALSE, pending |-> IssueStatus(pending, m)]

\* Variant: handleLogMessage appends to the placeholder.
HandleLogMessageAppendOnly(content, first, data) ==
    content \o <<LogLine(data)>>

\* handleLogMessage: the log content afterwards.
HandleLogMessage(content, first, data) ==
    (IF first THEN <<>> ELSE content) \o <<LogLine(data)>>

\* yearSelect / monthSelect 'change' of the admin page
AdminYearMonthChange(y, m) ==
    /\ UNCHANGED <<doctorVars, resultsVars, lastSettled>>
    /\ TotalStatus < MaxStatus
    /\ adminYear' = y
    /\ adminMonth' = m
    /\ pendingStatus' = IssueStatus(pendingStatus, m)
    /\ UNCHANGED <<runDisabled, eventSource, streams, logTimerInterval,
                   activeTimers, fullScheduleData, log, isFirstLog,
                   minimized, toggleHidden, resultsHidden, run, appliedFrom>>

StatusKinds == {"empty", "all", "missing", "error"}

\* A schedule_data fetch of updateSubmissionStatus settles: no doctors,
\* every doctor submitted, some doctor missing, or the fetch rejected.
\* Each branch of the response writes statusList, runButton.disabled and
\* helpText; a rejection leaves the function at the await, where no try /
\* catch surrounds it, so nothing is written.
StatusDone(m, kind) ==
    /\ UNCHANGED <<doctorVars, resultsVars>>
    /\ pendingStatus[m] > 0
    /\ pendingStatus' = [pendingStatus EXCEPT ![m] = @ - 1]
    /\ runDisabled' = CASE kind = "empty" -> TRUE
                        [] kind = "all" -> FALSE
                        [] kind = "missing" -> TRUE
                        [] OTHER -> runDisabled
    /\ lastSettled' = [month |-> m, kind |-> kind, shown |-> kind # "error"]
    /\ UNCHANGED <<adminYear, adminMonth, eventSource, streams,
                   logTimerInterval, activeTimers, fullScheduleData, log,
                   isFirstLog, minimized, toggleHidden, resultsHidden, run,
                   appliedFrom>>

\* runButton 'click': runScheduler.  A disabled button dispatches no click.
RunScheduler ==
    /\ UNCHANGED <<doctorVars, resultsVars, lastSettled>>
    /\ ~runDisabled
    /\ eventSource < MaxRuns
    /\ LET new == eventSource + 1 IN
       /\ streams' = [ClosePrevious(streams, eventSource) EXCEPT ![new] = "open"]
       /\ eventSource' = new
       /\ activeTimers' = (activeTimers \ {logTimerInterval}) \cup {new}
       /\ logTimerInterval' = new
    /\ runDisabled' = TRUE
    /\ minimized' = RunSchedulerView.minimized
    /\ log' = <<LogPlaceholder>>
    /\ toggleHidden' = RunSchedulerView.toggleHidden
    /\ resultsHidden' = RunSchedulerView.resultsHidden
    /\ isFirstLog' = TRUE
    /\ run' = [status |-> "running", msg |-> "", delivered |-> <<>>,
               preempted |-> eventSource # NoStream
                             /\ streams[eventSource] = "open"]
    /\ appliedFrom' = {}
    /\ UNCHANGED <<adminYear, adminMonth, fullScheduleData, pendingStatus>>

\* onmessage of stream s; a closed EventSource dispatches no event.
StreamMessage(s, data) ==
    /\ UNCHANGED <<doctorVars, resultsVars, lastSettled>>
    /\ streams[s] = "open"
    /\ Len(log) < MaxLog
    /\ log' = HandleLogMessage(log, isFirstLog, data)
    /\ isFirstLog' = FALSE
    /\ run' = IF s = eventSource
              THEN [run EXCEPT !.delivered = Append(@, data)] ELSE run
    /\ appliedFrom' = appliedFrom \cup {s}
    /\ UNCHANGED <<adminYear, adminMonth, runDisabled, eventSource, streams,
                   logTimerInterval, activeTimers, fullScheduleData,
                   minimized, toggleHidden, resultsHidden, pendingStatus>>

\* 'DONE' of stream s: handleDoneEvent, with displayResults on success.
StreamDone(s, status, msg, data) ==
    /\ UNCHANGED <<doctorVars, lastSettled>>
    /\ data \in (IF status = "success" THEN Payloads ELSE {NoPayload})
    /\ streams[s] = "open"
    /\ TotalStatus < MaxStatus
    /\ status = "success" => msg = ""
    /\ status # "success" => msg \in Messages
    /\ status # "success" => Len(log) < MaxLog
    /\ activeTimers' = activeTimers \ {logTimerInterval}
    /\ IF status = "success"
       THEN /\ fullScheduleData' = data
            /\ table' = ApplyTableFilters(fullScheduleData', table,
                                          areaFilter, dateFilter,
                                          adminYear, adminMonth)
            /\ filtersShown' = TRUE
            /\ resultsHidden' = FALSE
            /\ minimized' = TRUE
            /\ toggleHidden' = FALSE
            /\ log' = log
       ELSE /\ log' = Append(log, LogFailure(msg))
            /\ UNCHANGED <<fullScheduleData, table, filtersShown,
                           resultsHidden, minimized, toggleHidden>>
    /\ LET r == ResetRunButton(pendingStatus, adminMonth) IN
       /\ runDisabled' = r.disabled
       /\ pendingStatus' = r.pending
    /\ streams' = CloseStream(streams, eventSource)
    /\ run' = IF s = eventSource
              THEN [run EXCEPT !.status = status, !.msg = msg] ELSE run
    /\ appliedFrom' = appliedFrom \cup {s}
    /\ UNCHANGED <<adminYear, adminMonth, eventSource, logTimerInterval,
                   isFirstLog, areaFilter, dateFilter>>

\* Variant: onerror leaves the stream open, so that it reconnects.
OnErrorCloseSkipped(ss, s) == ss

\* eventSource.close() in the onerror handler
OnErrorClose(ss, s) == CloseStream(ss, s)

\* onerror of stream s.
StreamError(s) ==
    /\ UNCHANGED <<doctorVars, resultsVars, lastSettled>>
    /\ streams[s] = "open"
    /\ TotalStatus < MaxStatus
    /\ Len(log) < MaxLog
    /\ log' = Append(log, LogDisconnect)
    /\ streams' = OnErrorClose(streams, eventSource)
    /\ LET r == ResetRunButton(pendingStatus, adminMonth) IN
       /\ runDisabled' = r.disabled
       /\ pendingStatus' = r.pending
    /\ run' = IF s = eventSource THEN [run EXCEPT !.status = "error"] ELSE run
    /\ appliedFrom' = appliedFrom \cup {s}
    /\ UNCHANGED <<adminYear, adminMonth, eventSource, logTimerInterval,
                   activeTimers, fullScheduleData, isFirstLog, minimized,
                   toggleHidden, resultsHidden>>

\* toggleLogBtn 'click'; a button hidden by 'd-none' receives no click.
ToggleLog ==
    /\ UNCHANGED <<doctorVars, resultsVars, lastSettled>>
    /\ ~toggleHidden
    /\ minimized' = ~minimized
    /\ UNCHANGED <<adminYear, adminMonth, runDisabled, eventSource, streams,
                   logTimerInterval, activeTimers, fullScheduleData, log,
                   isFirstLog, toggleHidden, resultsHidden, pendingStatus,
                   run, appliedFrom>>

\* areaFilter / dateFilter 'change': one of the two selects takes a new
\* value, then applyTableFilters.  The controls are shown by displayResults.
FilterChange(area, dateRange) ==
    /\ UNCHANGED <<doctorVars, lastSettled>>
    /\ filtersShown
    /\ (area # areaFilter) # (dateRange # dateFilter)
    /\ areaFilter' = area
    /\ dateFilter' = dateRange
    /\ table' = ApplyTableFilters(fullScheduleData, table, area, dateRange,
                                  adminYear, adminMonth)
    /\ UNCHANGED <<adminYear, adminMonth, runDisabled, eventSource, streams,
                   logTimerInterval, activeTimers, fullScheduleData,
                   filtersShown, log, isFirstLog, minimized, toggleHidden,
                   resultsHidden, pendingStatus, run, appliedFrom>>

\* resetFiltersBtn 'click'
ResetFilters ==
    /\ UNCHANGED <<doctorVars, lastSettled>>
    /\ filtersShown
    /\ areaFilter' = "all"
    /\ dateFilter' = "all"
    /\ table' = ApplyTableFilters(fullScheduleData, table, "all", "all",
                                  adminYear, adminMonth)
    /\ UNCHANGED <<adminYear, adminMonth, runDisabled, eventSource, streams,
                   logTimerInterval, activeTimers, fullScheduleData,
                   filtersShown, log, isFirstLog, minimized, toggleHidden,
                   resultsHidden, pendingStatus, run, appliedFrom>>

DoneStatuses == {"success", "failure"}

NextAdmin ==
    \/ \E y \in Years, m \in Months : AdminYearMonthChange(y, m)
    \/ \E m \in Months, k \in StatusKinds : StatusDone(m, k)
    \/ RunScheduler
    \/ \E s \in 1 .. MaxRuns, l \in Lines : StreamMessage(s, l)
    \/ \E s \in 1 .. MaxRuns, st \in DoneStatuses, x \in Messages \cup {""} :
          \E p \in Payloads \cup {NoPayload} : StreamDone(s, st, x, p)
    \/ \E s \in 1 .. MaxRuns : StreamError(s)
    \/ ToggleLog
    \/ \E a \in AreaChoices, r \in DateChoices : FilterChange(a, r)
    \/ ResetFilters

SpecAdmin == AdminInit /\ [][NextAdmin]_vars

NextDoctor ==
    \/ \E d \in Doctors : DoctorChange(d)
    \/ \E ok \in BOOLEAN : InfoDone(ok)
    \/ \E y \in Years, m \in Months : YearMonthChange(y, m)
    \/ \E m \in Months, e \in SubmissionEntries, h \in HolidayChoices :
          LoadDone(m, e, h)
    \/ \E m \in Months : LoadFailed(m)
    \/ \E d \in 1 .. MaxDay : MouseDown(d)
    \/ \E d \in 1 .. MaxDay : MouseOver(d)
    \/ MouseUp
    \/ \E o \in SubmitOutcomes : SubmitSettle(o)
    \/ SubmitClick

SpecDoctor == DoctorInit /\ [][NextDoctor]_vars

\* ------------------------------------------------------------ properties
\* A pointer-up that ends a gesture in which no cell was entered and no
\* render happened.
CleanClickEnds == isDragging /\ ~isDragging' /\ gest.clean /\ gest.last = NoDay

\* A pointer-up that ends a gesture whose pointer last entered a cell, with
\* no render in between.
CleanDragEnds == isDragging /\ ~isDragging' /\ gest.clean /\ gest.last # NoDay

\* C1: a single click (pointer-down, pointer-up, no pointer-enter) on an
\* unselected day leaves exactly that day selected and no other day
\* changed, and a click on a selected day deselects exactly that day,
\* however many times the calendar has been rendered.
C1_ClickTogglesAnchor ==
    [][CleanClickEnds =>
          selected' = IF dragStartDay \in gest.pre
                      THEN gest.pre \ {dragStartDay}
                      ELSE gest.pre \cup {dragStartDay}]_vars

\* C2: a drag from an unselected day a whose pointer last entered day b
\* selects every day of [min(a,b), max(a,b)] and changes no other day; the
\* same drag from a selected day a unselects exactly that range.
C2_DragTogglesRange ==
    [][CleanDragEnds =>
          selected' = IF dragStartDay \in gest.pre
                      THEN gest.pre \ Range(dragStartDay, gest.last)
                      ELSE gest.pre \cup Range(dragStartDay, gest.last)]_vars

\* C3: no pointer gesture changes the selection state of a holiday day: a
\* pointer-down on a holiday cell starts no drag, and outside a render the
\* selected holidays stay the same.
C3_HolidayUntouched ==
    [][/\ (~isDragging /\ isDragging') => dragStartDay' \notin holiday
       /\ nListeners' = nListeners =>
              selected' \cap holiday = selected \cap holiday]_vars

OpenStreams == {s \in 1 .. MaxRuns : streams[s] = "open"}

\* C4: at most one run stream is open in every reachable state, and it is
\* the stream of the run started last.
C4_AtMostOneOpenStream ==
    /\ Cardinality(OpenStreams) <= 1
    /\ OpenStreams \subseteq {eventSource}

\* A later run has been started and its stream is open, the earlier
\* streams being closed.
C4_Witness ==
    /\ eventSource >= 2
    /\ streams[eventSource] = "open"
    /\ streams[1] = "closed"

\* The log content a run alone produces: the placeholder or the lines it
\* delivered, then the line of its failure or disconnect.
OwnLog ==
    (IF run.delivered = <<>> THEN <<LogPlaceholder>>
     ELSE [i \in 1 .. Len(run.delivered) |-> LogLine(run.delivered[i])])
    \o (CASE run.status = "failure" -> <<LogFailure(run.msg)>>
          [] run.status = "error" -> <<LogDisconnect>>
          [] OTHER -> <<>>)

\* C5: when a run is started while the previous stream is still open, the
\* previous streams are closed, no event of theirs is handled afterwards,
\* and the log holds the placeholder and then only what the new stream
\* delivered.
C5_RestartSilencesOldStream ==
    run.preempted =>
        /\ \A s \in 1 .. MaxRuns : s < eventSource => streams[s] = "closed"
        /\ appliedFrom \subseteq {eventSource}
        /\ log = OwnLog

\* A run that pre-empted an open stream has delivered a line of its own.
C5_Witness == run.preempted /\ Len(run.delivered) >= 1

\* C6: after lines l1..ln (n >= 1) and a success terminal event the log is
\* exactly l1 \n ... ln \n in the order received and the results are shown.
C6_SuccessLog ==
    (run.status = "success" /\ Len(run.delivered) >= 1) =>
        /\ log = [i \in 1 .. Len(run.delivered) |-> LogLine(run.delivered[i])]
        /\ ~resultsHidden

\* A run delivered the lines A, B and then succeeded.
C6_Witness == run.status = "success" /\ run.delivered = <<"A", "B">>

\* C7: after a terminal event with a non-success status and message X the
\* log holds a line with X, the log card is expanded and the results are
\* hidden, whatever earlier runs did.
C7_FailureShown ==
    run.status = "failure" =>
        /\ \E i \in 1 .. Len(log) : log[i] = LogFailure(run.msg)
        /\ ~minimized
        /\ resultsHidden

\* A run failed with message X after an earlier run had succeeded.
C7_Witness ==
    run.status = "failure" /\ run.msg = "X" /\ fullScheduleData # NoPayload

\* C8: from the start of a run until its terminal event or transport error
\* the run button is disabled.
C8_DisabledWhileRunning == run.status = "running" => runDisabled

\* C9: the submit button is disabled exactly while a submission is in
\* flight, so at most one submission is in flight and the button is enabled
\* again once the call has settled, whatever its outcome.
C9_SubmitGuard ==
    /\ submitsInFlight <= 1
    /\ submitDisabled <=> submitsInFlight = 1

\* A submission is in flight on a rendered calendar.
C9_Witness == submitsInFlight = 1 /\ submitDisabled /\ nListeners > 0

\* C10: every terminal transition of a run (success, failure or transport
\* error) issues one submission-status fetch for the chosen month.
C10_TerminalRefreshes ==
    [][(run.status = "running"
           /\ run'.status \in {"success", "failure", "error"}) =>
          pendingStatus'[adminMonth] = pendingStatus[adminMonth] + 1]_vars

\* A run ended with a transport error and a status fetch is in flight.
C10_Witness == run.status = "error" /\ pendingStatus[adminMonth] >= 1

\* C11: a transport error of the run stream appends the disconnect line,
\* closes the stream and re-enables the run button; afterwards no stream
\* is open until runScheduler is triggered again.
C11_TransportErrorEndsRun ==
    [][/\ (run.status = "running" /\ run'.status = "error") =>
              /\ log' = Append(log, LogDisconnect)
              /\ streams'[eventSource] = "closed"
              /\ ~runDisabled'
       /\ run'.status = "error" =>
              {s \in 1 .. MaxRuns : streams'[s] = "open"} = {}
       /\ (\E s \in 1 .. MaxRuns : streams[s] # "open" /\ streams'[s] = "open")
              => (~runDisabled /\ run'.status = "running")]_vars

\* A run ended with a transport error after it had delivered a line.
C11_Witness ==
    /\ run.status = "error"
    /\ Len(run.delivered) >= 1
    /\ streams[eventSource] = "closed"

\* C17: at most one timer interval is active, and after a terminal
\* transition none is active until the next run is started.
C17_TimerOnlyWhileRunning ==
    /\ Cardinality(activeTimers) <= 1
    /\ run.status \in {"success", "failure", "error"} => activeTimers = {}

\* The range the gesture in progress has tracked: empty before the first
\* pointer-enter.
TrackedRange ==
    IF gest.last = NoDay THEN {}
    ELSE Range(dragStartDay, gest.last) \cap (1 .. cellDays)

\* C15: on a rendered calendar, during a drag exactly the cells of
\* [min(anchor, current), max(anchor, current)] are marked pending, the
\* marks change no selection state before pointer-up, and pointer-up sets
\* exactly the tracked range to the toggle value, leaving every day outside
\* the range and the anchor as it was.
C15_PendingRangeCommit ==
    [][/\ (isDragging' /\ gest'.clean) =>
              selecting' = IF gest'.last = NoDay THEN {}
                           ELSE Range(dragStartDay', gest'.last)
                                    \cap (1 .. cellDays')
       /\ (isDragging /\ isDragging' /\ nListeners' = nListeners) =>
              selected' = selected
       /\ (isDragging /\ ~isDragging' /\ gest.clean) =>
              /\ selecting' = {}
              /\ \A d \in 1 .. cellDays :
                    IF d \in TrackedRange
                    THEN (d \in selected') = dragToggleState
                    ELSE (d \in selected') = (d \in selected)]_vars

\* A drag in progress from day 2 to day 1: both cells are marked pending
\* and day 1 is not selected although the toggle value is "select".
C15_Witness ==
    /\ isDragging
    /\ gest.clean
    /\ dragStartDay = 2
    /\ gest.last = 1
    /\ selecting = {1, 2}
    /\ dragToggleState
    /\ 1 \notin selected

\* The context chosen in the selectors.
CurrentContext ==
    [doctor |-> currentDoctor, year |-> currentYear, month |-> currentMonth]

\* C18: when the last outstanding load completes and renders, the calendar
\* shows the data of the chosen (doctor, year, month), whatever the order
\* in which the responses arrived.
C18_LastRenderIsCurrent ==
    [][(nListeners' = nListeners + 1 /\ DoctorFetches' = 0) =>
          calendarFor' = CurrentContext']_vars

\* C19: a submission from a rendered calendar posts the context for which
\* the serialized cells were loaded.
C19_SubmitMatchesCalendar ==
    [][(submitsInFlight' = submitsInFlight + 1 /\ nListeners > 0) =>
          calendarFor = CurrentContext]_vars

\* C16: whenever the most recent run has not succeeded (it is running or
\* it ended failed), no result payload is held.
C16_NoPayloadUnlessSucceeded ==
    run.status \in {"running", "failure", "error"} =>
        fullScheduleData = NoPayload

\* C13: the results table is a function of the cached payload and the two
\* filter values only: a step that keeps the payload and both filter
\* values leaves a rendered table as it is, whatever else happened since
\* the table was rendered.
C13_TableOfPayloadAndFilters ==
    [][(/\ table # NoTable
        /\ fullScheduleData' = fullScheduleData
        /\ areaFilter' = areaFilter
        /\ dateFilter' = dateFilter) => table' = table]_vars

\* The cells of the table shown, as (doctor, day) pairs.
TableCells == (DOMAIN table.cells) \X (table.startDay .. table.endDay)

StyleClasses == {"cell-holiday", "cell-weekend"}

\* C14 as stated: one precedence chain per cell, day-off marking over
\* holiday / weekend styling over assigned-area label: a day-off cell
\* carries no holiday or weekend styling and a holiday or weekend cell
\* shows no assigned-area label.
C14_SinglePrecedenceChain ==
    \A c \in TableCells :
        LET cell == table.cells[c[1]][c[2]]
            styled == cell.classes \cap StyleClasses # {}
        IN /\ "cell-dayoff" \in cell.classes => ~styled
           /\ styled => cell.text \in {"", "dayoff"}

\* C14 amended: the text of every cell follows day-off marker over
\* assigned-area label over blank, so a day that is both a day off and
\* assigned shows only the day-off marker; the styling is decided apart
\* from the text, holiday before weekend, and stays on the cell whatever
\* its text is.
C14_TextAndStylePrecedence ==
    \A c \in TableCells :
        LET doc == c[1]
            day == c[2]
            cell == table.cells[doc][day]
            data == fullScheduleData
            off == day \in data.days_off[doc]
            area == IF day \in DOMAIN data.schedule[doc]
                    THEN data.schedule[doc][day] ELSE ""
        IN /\ off => /\ cell.text = "dayoff"
                     /\ cell.classes \ StyleClasses = {"cell-dayoff"}
           /\ (~off /\ area # "") =>
                  /\ cell.text = area
                  /\ cell.classes \ StyleClasses = {"cell-area-" \o area}
           /\ (~off /\ area = "") =>
                  /\ cell.text = ""
                  /\ cell.classes \ StyleClasses = {}
           /\ day \in data.holidays =>
                  cell.classes \cap StyleClasses = {"cell-holiday"}
           /\ Cardinality(cell.classes \cap StyleClasses) <= 1

\* The table shows drA: day 2, a day off with an assignment, shows only
\* the marker; day 1, a holiday with an assignment, shows the label on a
\* holiday-styled cell.
C14_Witness ==
    /\ table # NoTable
    /\ "drA" \in DOMAIN table.cells
    /\ fullScheduleData.schedule["drA"][2] = "N"
    /\ table.cells["drA"][2].text = "dayoff"
    /\ table.cells["drA"][1] =
           [text |-> "N", classes |-> {"cell-holiday", "cell-area-N"}]

\* C12: a status fetch that fails is caught by updateSubmissionStatus and
\* surfaced on the page.
C12_FailureSurfaced == lastSettled.kind = "error" => lastSettled.shown

\* C20: the run button is enabled only if the submission data fetched
\* last for the chosen month has a doctor and no doctor missing: when the
\* status fetch that settled last was for the chosen month and reported
\* no doctor or a missing doctor, the button is disabled.
C20_EnabledOnlyIfAllSubmitted ==
    (lastSettled.month = adminMonth /\ lastSettled.kind \in {"empty", "missing"})
        => runDisabled

====
